---- MODULE Spec2Model ----
(***************************************************************************)
(* Model of leptonai/cli/util.py: the abbreviation-aware click group       *)
(* (ClickAliasedGroup.get_command / resolve_command and the nested         *)
(* is_abbrev) and the print-and-exit helpers                               *)
(* (get_workspace_and_token_or_die, check, guard_api, explain_response).   *)
(*                                                                         *)
(* A string is a sequence of characters; a character is its code point,    *)
(* a natural number, so that Python's string order is the lexical order of *)
(* the sequences.  A command is identified by the name it is registered    *)
(* under (cmd.name is the key of Group.commands).                          *)
(***************************************************************************)
EXTENDS Integers, Sequences, FiniteSets, TLC

VARIABLES commands, pc, call, outcome

vars == <<commands, pc, call, outcome>>

\* ---------------------------------------------------------------- bounds
NumChars == 2
MaxNameLen == 2
MaxTokenLen == 2
MaxCmds == 2
MaxResolveCmds == 1
MaxArgs == 1
MaxAbbrevLen == 4

Chars == 1..NumChars

StringsUpTo(n) == UNION {[1..k -> Chars] : k \in 0..n}

\* registered command names are never the empty string
Names == StringsUpTo(MaxNameLen) \ {<<>>}

Tokens == StringsUpTo(MaxTokenLen)

\* every listing (list_commands order) of at most n distinct names
Listings(n) ==
    {s \in UNION {[1..k -> Names] : k \in 0..n} :
        \A i, j \in 1..Len(s) : i # j => s[i] # s[j]}

\* the arguments of is_abbrev: a token, and a registered name
AbbrevTokens == StringsUpTo(MaxAbbrevLen)

AbbrevNames == StringsUpTo(MaxAbbrevLen) \ {<<>>}

\* ------------------------------------------------------- Python builtins
\* None where a command is expected, and a registered command: cmd.name is
\* the name it is registered under
None == [kind |-> "None", name |-> <<>>]

Command(n) == [kind |-> "command", name |-> n]

\* None where a string is expected
NoneStr == "None"

\* str.__lt__: lexical order by code point, a proper prefix comes first
RECURSIVE StrLess(_, _)
StrLess(a, b) ==
    IF b = <<>> THEN FALSE
    ELSE IF a = <<>> THEN TRUE
    ELSE IF a[1] # b[1] THEN a[1] < b[1]
    ELSE StrLess(Tail(a), Tail(b))

\* insert n into the sorted list s, after the elements not greater than it
RECURSIVE Insert(_, _)
Insert(n, s) ==
    IF s = <<>> THEN <<n>>
    ELSE IF StrLess(n, s[1]) THEN <<n>> \o s
    ELSE <<s[1]>> \o Insert(n, Tail(s))

\* mutant: the candidates are left in listing order
unsorted(s) == s

\* sorted(matches)
RECURSIVE sorted(_)
sorted(s) ==
    IF s = <<>> THEN <<>>
    ELSE Insert(s[Len(s)], sorted(SubSeq(s, 1, Len(s) - 1)))

\* --------------------------------------------------------------- is_abbrev
\* any(c == ch for c in it): the iterator it stands after position j of y;
\* it is consumed up to and including the first element equal to ch.
\* The result is the new position, or 0 when the iterator ran out.
RECURSIVE AnyFrom(_, _, _)
AnyFrom(ch, y, j) ==
    IF j >= Len(y) THEN 0
    ELSE IF y[j + 1] = ch THEN j + 1
    ELSE AnyFrom(ch, y, j + 1)

\* all(any(...) for ch in x), from the i-th character of x on, the shared
\* iterator standing after position j of y; all() stops at the first False
RECURSIVE AllFrom(_, _, _, _)
AllFrom(x, i, y, j) ==
    IF i > Len(x) THEN TRUE
    ELSE LET k == AnyFrom(x[i], y, j)
         IN  IF k = 0 THEN FALSE ELSE AllFrom(x, i + 1, y, k)

\* mutant: every character of x is searched from the start of y
is_abbrev_restart(x, y) ==
    IF x = <<>> \/ y = <<>> THEN [raised |-> "IndexError", value |-> FALSE]
    ELSE IF x[1] # y[1] THEN [raised |-> "", value |-> FALSE]
    ELSE [raised |-> "",
          value |-> \A i \in 1..Len(x) : AnyFrom(x[i], y, 0) # 0]

\* is_abbrev(x, y): x[0] and y[0] are evaluated first and raise IndexError
\* on an empty string
is_abbrev(x, y) ==
    IF x = <<>> \/ y = <<>> THEN [raised |-> "IndexError", value |-> FALSE]
    ELSE IF x[1] # y[1] THEN [raised |-> "", value |-> FALSE]
    ELSE [raised |-> "", value |-> AllFrom(x, 1, y, 0)]

\* ------------------------------------------------- click.Group (framework)
\* self.list_commands(ctx): the registered names, in the group's listing order
list_commands(cmds) == cmds

\* click.Group.get_command(self, ctx, name): self.commands.get(name)
Group_get_command(cmds, name) ==
    IF \E i \in 1..Len(cmds) : cmds[i] = name THEN Command(name) ELSE None

\* exit code of the click.UsageError that ctx.fail raises
UsageErrorExitCode == 2

NoMessage == [cmd_name |-> <<>>, candidates |-> <<>>]

\* ------------------------------------------------------------ get_command
\* [x for x in self.list_commands(ctx) if is_abbrev(cmd_name, x)], with the
\* calls of is_abbrev in the order made; the comprehension stops at the
\* first call that raises
RECURSIVE Comprehension(_, _)
Comprehension(names, cmd_name) ==
    IF names = <<>> THEN [raised |-> "", matches |-> <<>>, calls |-> <<>>]
    ELSE LET r == is_abbrev(cmd_name, names[1])
             c == [x |-> cmd_name, y |-> names[1], r |-> r]
         IN  IF r.raised # ""
             THEN [raised |-> r.raised, matches |-> <<>>, calls |-> <<c>>]
             ELSE LET rest == Comprehension(Tail(names), cmd_name)
                  IN  [raised  |-> rest.raised,
                       matches |-> (IF r.value THEN <<names[1]>> ELSE <<>>)
                                       \o rest.matches,
                       calls   |-> <<c>> \o rest.calls]

\* the abbreviation branch of get_command, lines 31-37
Abbreviated(cmds, cmd_name) ==
    LET m == Comprehension(list_commands(cmds), cmd_name)
    IN  IF m.raised # ""
        THEN [kind |-> m.raised, cmd |-> None, exit_code |-> 1,
              message |-> NoMessage, calls |-> m.calls]
        ELSE IF m.matches = <<>>
        THEN [kind |-> "return", cmd |-> None, exit_code |-> 0,
              message |-> NoMessage, calls |-> m.calls]
        ELSE IF Len(m.matches) = 1
        THEN [kind |-> "return", cmd |-> Group_get_command(cmds, m.matches[1]),
              exit_code |-> 0, message |-> NoMessage, calls |-> m.calls]
        ELSE [kind |-> "UsageError", cmd |-> None,
              exit_code |-> UsageErrorExitCode,
              message |-> [cmd_name |-> cmd_name,
                           candidates |-> sorted(m.matches)],
              calls |-> m.calls]

\* mutant: the exact lookup of lines 20-22 is skipped
get_command_abbrev_only(cmds, cmd_name) == Abbreviated(cmds, cmd_name)

\* mutant: no exact lookup, and only names other than the token are matched
get_command_proper_only(cmds, cmd_name) ==
    Abbreviated(SelectSeq(cmds, LAMBDA n : n # cmd_name), cmd_name)

\* ClickAliasedGroup.get_command(self, ctx, cmd_name)
get_command(cmds, cmd_name) ==
    LET rv == Group_get_command(cmds, cmd_name)
    IN  IF rv # None
        THEN [kind |-> "return", cmd |-> rv, exit_code |-> 0,
              message |-> NoMessage, calls |-> <<>>]
        ELSE Abbreviated(cmds, cmd_name)

\* -------------------------------------------------------- resolve_command
\* a trailing argument, and the argument lists after the command token
Arg == <<1>>

RestArgs == {[i \in 1..k |-> Arg] : k \in 0..MaxArgs}

\* click's Group.resolve_command(ctx, args), line 41: looks the first
\* argument up with self.get_command, fails "No such command" unless the
\* context parses resiliently, and returns (name or None, cmd, args[1:])
super_resolve_command(cmds, args, resilient_parsing) ==
    LET cmd_name == args[1]
        g == get_command(cmds, cmd_name)
    IN  IF g.kind # "return"
        THEN [kind |-> g.kind, name |-> <<>>, cmd |-> None, args |-> <<>>,
              exit_code |-> g.exit_code, message |-> g.message]
        ELSE IF g.cmd = None /\ ~resilient_parsing
        THEN [kind |-> "UsageError", name |-> <<>>, cmd |-> None,
              args |-> <<>>, exit_code |-> UsageErrorExitCode,
              message |-> [cmd_name |-> cmd_name, candidates |-> <<>>]]
        ELSE [kind |-> "return",
              name |-> IF g.cmd # None THEN cmd_name ELSE <<>>,
              cmd |-> g.cmd, args |-> Tail(args), exit_code |-> 0,
              message |-> NoMessage]

\* ClickAliasedGroup.resolve_command(self, ctx, args): cmd.name raises
\* AttributeError when cmd is None
resolve_command(cmds, args, resilient_parsing) ==
    LET r == super_resolve_command(cmds, args, resilient_parsing)
    IN  IF r.kind # "return" THEN r
        ELSE IF r.cmd = None
        THEN [kind |-> "AttributeError", name |-> <<>>, cmd |-> None,
              args |-> <<>>, exit_code |-> 1, message |-> NoMessage]
        ELSE [kind |-> "return", name |-> r.cmd.name, cmd |-> r.cmd,
              args |-> r.args, exit_code |-> 0, message |-> NoMessage]

\* ------------------------------------------------------ print-and-exit
Urls == {"url1", "url2"}

AuthTokens == {"token1", "token2"}

Messages == {"message1", "message2"}

APIErrors == {"APIError1"}

Contents == {"content1"} \cup APIErrors

\* the line printed at line 55 (its backquotes left out)
NoWorkspace == "No workspace found. Please run lep workspace login first."

\* the line printed at line 59 (its backquotes left out)
NoAuthToken == "No auth token found. Please run lep workspace login first."

HTTP_OK == 200

HTTP_NOT_FOUND == 404

StatusCodes == {HTTP_OK, HTTP_NOT_FOUND, 201, 500}

\* sys.exit(1) after the lines printed
Exit(printed, lookups) ==
    [kind |-> "SystemExit", exit_code |-> 1, printed |-> printed,
     ret |-> <<>>, lookups |-> lookups]

Return(value, printed, lookups) ==
    [kind |-> "return", exit_code |-> 0, printed |-> printed,
     ret |-> value, lookups |-> lookups]

\* mutant: the check of the auth token, lines 58-60, is left out
get_workspace_and_token_unchecked(workspace_url, auth_tokens) ==
    IF workspace_url = NoneStr
    THEN Exit(<<NoWorkspace>>, <<"get_workspace_url">>)
    ELSE Return(<<workspace_url, auth_tokens[workspace_url]>>, <<>>,
                <<"get_workspace_url", "get_auth_token">>)

\* get_workspace_and_token_or_die(): workspace_url is what
\* workspace.get_workspace_url() answers, auth_tokens[u] what
\* workspace.get_auth_token(u) answers
get_workspace_and_token_or_die(workspace_url, auth_tokens) ==
    IF workspace_url = NoneStr
    THEN Exit(<<NoWorkspace>>, <<"get_workspace_url">>)
    ELSE LET auth_token == auth_tokens[workspace_url]
             lookups == <<"get_workspace_url", "get_auth_token">>
         IN  IF auth_token = NoneStr
             THEN Exit(<<NoAuthToken>>, lookups)
             ELSE Return(<<workspace_url, auth_token>>, <<>>, lookups)

\* check(condition, message); condition is the truth value of the argument
check(condition, message) ==
    IF ~condition
    THEN Exit(<<message>>, <<>>)
    ELSE Return(<<>>, <<>>, <<>>)

\* truth value of the msg argument: None and "" are false
Truthy(msg) == msg # NoneStr /\ msg # ""

\* mutant: sys.exit(1) of line 91 is left out
guard_api_no_exit(content_or_error, detail, msg) ==
    Return(<<content_or_error>>,
           IF content_or_error \in APIErrors
           THEN (IF detail THEN <<content_or_error>> ELSE <<>>)
                    \o (IF Truthy(msg) THEN <<msg>> ELSE <<>>)
           ELSE <<>>, <<>>)

\* guard_api(content_or_error, detail, msg)
guard_api(content_or_error, detail, msg) ==
    IF content_or_error \in APIErrors
    THEN Exit((IF detail THEN <<content_or_error>> ELSE <<>>)
                  \o (IF Truthy(msg) THEN <<msg>> ELSE <<>>), <<>>)
    ELSE Return(<<content_or_error>>, <<>>, <<>>)

\* mutant: sys.exit(1) of line 112 is under exit_if_404 as well
explain_response_lenient(status_code, if_200, if_404, if_others, exit_if_404) ==
    IF status_code = HTTP_OK
    THEN Return(<<>>, <<if_200>>, <<>>)
    ELSE LET line == IF status_code = HTTP_NOT_FOUND THEN if_404 ELSE if_others
         IN  IF exit_if_404
             THEN Exit(<<line>>, <<>>)
             ELSE Return(<<>>, <<line>>, <<>>)

\* explain_response(response, if_200, if_404, if_others, exit_if_404)
explain_response(status_code, if_200, if_404, if_others, exit_if_404) ==
    IF status_code = HTTP_OK
    THEN Return(<<>>, <<if_200>>, <<>>)
    ELSE IF status_code = HTTP_NOT_FOUND
    THEN IF exit_if_404
         THEN Exit(<<if_404>>, <<>>)
         ELSE Return(<<>>, <<if_404>>, <<>>)
    ELSE Exit(<<if_others>>, <<>>)

\* ------------------------------------------------------------ properties
Registered(n) == \E i \in 1..Len(commands) : commands[i] = n

\* the characters of y at the positions S, in order
Restrict(y, S) ==
    LET F[i \in 0..Len(y)] ==
            IF i = 0 THEN <<>>
            ELSE IF i \in S THEN Append(F[i - 1], y[i]) ELSE F[i - 1]
    IN  F[Len(y)]

\* x is an ordered subsequence of y: x is y with some positions left out
IsSubsequence(x, y) == \E S \in SUBSET (1..Len(y)) : Restrict(y, S) = x

\* x is a run of consecutive characters of y
IsSubstring(x, y) ==
    \E i \in 0..Len(y) : i + Len(x) <= Len(y) /\ SubSeq(y, i + 1, i + Len(x)) = x

\* the abbreviation relation of the specification
AbbrevOf(x, y) == x # <<>> /\ y # <<>> /\ x[1] = y[1] /\ IsSubsequence(x, y)

Elements(s) == {s[i] : i \in 1..Len(s)}

\* the registered names the token abbreviates
Candidates(token) == {n \in Elements(commands) : AbbrevOf(token, n)}

\* C1: a token equal to a registered name returns that command at once: no
\* call of is_abbrev is made and no ambiguity failure is raised, even when the
\* token also abbreviates other registered names.
ExactMatchReturnsImmediately ==
    (call.op = "get_command" /\ Registered(call.cmd_name))
        => /\ outcome.kind = "return"
           /\ outcome.cmd = Command(call.cmd_name)
           /\ outcome.calls = <<>>
           /\ outcome.message = NoMessage

ExactMatchAlsoAbbreviation ==
    /\ call.op = "get_command"
    /\ Registered(call.cmd_name)
    /\ \E n \in Candidates(call.cmd_name) : n # call.cmd_name
    /\ outcome.kind = "return"
    /\ outcome.cmd = Command(call.cmd_name)

\* C2: is_abbrev(x, y) is true exactly when x is non-empty, x and y begin
\* with the same character and x is an ordered subsequence of y.
IsAbbrevIsOrderedSubsequence ==
    call.op = "is_abbrev"
        => ((outcome.raised = "" /\ outcome.value)
               <=> (/\ call.x # <<>>
                    /\ call.x[1] = call.y[1]
                    /\ IsSubsequence(call.x, call.y)))

\* an abbreviation that is neither a prefix nor a substring of the name
AbbrevNotSubstring ==
    /\ call.op = "is_abbrev"
    /\ outcome.raised = ""
    /\ outcome.value
    /\ Len(call.x) >= 2
    /\ ~IsSubstring(call.x, call.y)

\* C3: for a token that equals no registered name, no candidate gives None,
\* exactly one candidate gives the command registered under it, and a
\* command returned is registered and equal to or abbreviated by the token.
UnregisteredTokenResolvesByAbbreviation ==
    (call.op = "get_command" /\ ~Registered(call.cmd_name))
        => LET M == Candidates(call.cmd_name)
           IN  /\ M = {} => (outcome.kind = "return" /\ outcome.cmd = None)
               /\ Cardinality(M) = 1
                     => (outcome.kind = "return"
                         /\ \E n \in M : outcome.cmd = Command(n))
               /\ (outcome.kind = "return" /\ outcome.cmd # None)
                     => (/\ Registered(outcome.cmd.name)
                         /\ \/ call.cmd_name = outcome.cmd.name
                            \/ AbbrevOf(call.cmd_name, outcome.cmd.name))

EmptyTokenNotFound ==
    (call.op = "get_command" /\ call.cmd_name = <<>> /\ commands # <<>>)
        => (outcome.kind = "return" /\ outcome.cmd = None)

\* C6: whenever the framework's resolution returns, resolve_command returns
\* its command and remaining arguments unchanged, and the name reported is
\* the registered name of that command.
ResolveReportsCanonicalName ==
    call.op = "resolve_command"
        => LET r == super_resolve_command(commands, call.args,
                                          call.resilient_parsing)
           IN  r.kind = "return"
                  => /\ outcome.kind = "return"
                     /\ outcome.cmd = r.cmd
                     /\ outcome.args = r.args
                     /\ outcome.cmd # None
                           => (/\ outcome.name = outcome.cmd.name
                               /\ Registered(outcome.name))

\* C7: a name that get_command returns resolves to itself.
ResolutionIdempotent ==
    (call.op = "get_command" /\ outcome.kind = "return" /\ outcome.cmd # None)
        => LET again == get_command(commands, outcome.cmd.name)
           IN  again.kind = "return" /\ again.cmd = outcome.cmd

\* an abbreviation resolved to a longer registered name
AbbreviationResolved ==
    /\ call.op = "get_command"
    /\ outcome.kind = "return"
    /\ outcome.cmd # None
    /\ outcome.cmd.name # call.cmd_name
    /\ Len(commands) >= 2

\* C8: without a workspace URL a line is printed and the process exits with
\* code 1 before the auth token is looked up; with the URL but without its
\* auth token a line is printed and the process exits with code 1; the
\* function returns only when both are present, then the pair, printing
\* nothing.
WorkspaceAndTokenOrDie ==
    call.op = "get_workspace_and_token_or_die"
        => LET url == call.workspace_url
               present == url # NoneStr /\ call.auth_tokens[url] # NoneStr
           IN  /\ url = NoneStr
                     => (/\ outcome.kind = "SystemExit"
                         /\ outcome.exit_code = 1
                         /\ Len(outcome.printed) = 1
                         /\ "get_auth_token" \notin Elements(outcome.lookups))
               /\ (url # NoneStr /\ call.auth_tokens[url] = NoneStr)
                     => (/\ outcome.kind = "SystemExit"
                         /\ outcome.exit_code = 1
                         /\ Len(outcome.printed) = 1)
               /\ outcome.kind = "return" <=> present
               /\ outcome.kind = "return"
                     => (/\ outcome.ret = <<url, call.auth_tokens[url]>>
                         /\ outcome.printed = <<>>)

\* both present, the other URL holding another token or none
WorkspaceAndTokenReturned ==
    /\ call.op = "get_workspace_and_token_or_die"
    /\ outcome.kind = "return"
    /\ \E u \in Urls : call.auth_tokens[u] # outcome.ret[2]

\* the failure condition of each helper
Failure ==
    \/ /\ call.op = "get_workspace_and_token_or_die"
       /\ \/ call.workspace_url = NoneStr
          \/ call.auth_tokens[call.workspace_url] = NoneStr
    \/ call.op = "check" /\ ~call.condition
    \/ call.op = "guard_api" /\ call.content_or_error \in APIErrors
    \/ call.op = "explain_response" /\ call.status_code # HTTP_OK

GuardApiSuccess ==
    (call.op = "guard_api" /\ call.content_or_error \notin APIErrors)
        => (/\ outcome.kind = "return"
            /\ outcome.ret = <<call.content_or_error>>
            /\ outcome.printed = <<>>)

\* guard_api given an error, no detail and no message to print
SilentGuard ==
    /\ call.op = "guard_api"
    /\ call.content_or_error \in APIErrors
    /\ ~call.detail
    /\ ~Truthy(call.msg)

\* explain_response given a 404 that is not to exit
Tolerated404 ==
    /\ call.op = "explain_response"
    /\ call.status_code = HTTP_NOT_FOUND
    /\ ~call.exit_if_404

ExplainResponseThreeWays ==
    call.op = "explain_response"
        => /\ Len(outcome.printed) = 1
           /\ outcome.kind = "SystemExit" => outcome.exit_code = 1
           /\ call.status_code = HTTP_OK
                 => (outcome.printed = <<call.if_200>>
                     /\ outcome.kind = "return")
           /\ call.status_code = HTTP_NOT_FOUND
                 => (/\ outcome.printed = <<call.if_404>>
                     /\ outcome.kind = "SystemExit" <=> call.exit_if_404
                     /\ outcome.kind = "return" <=> ~call.exit_if_404)
           /\ call.status_code \notin {HTTP_OK, HTTP_NOT_FOUND}
                 => (/\ outcome.printed = <<call.if_others>>
                     /\ outcome.kind = "SystemExit")

\* another status, not to exit on 404, the three lines not all the same
OtherStatusExited ==
    /\ call.op = "explain_response"
    /\ call.status_code \notin {HTTP_OK, HTTP_NOT_FOUND}
    /\ ~call.exit_if_404
    /\ call.if_others # call.if_404
    /\ outcome.kind = "SystemExit"

\* ------------------------------------------------------------ the machine
\* One process: the group as built at start-up (commands), then one call of
\* one of the functions; call holds its arguments, outcome how it ended.
NoCall == [op |-> "none"]

NoOutcome == [kind |-> "none"]

Start ==
    /\ pc = "ready"
    /\ call = NoCall
    /\ outcome = NoOutcome

Init == commands \in Listings(MaxCmds) /\ Start

InitResolve == commands \in Listings(MaxResolveCmds) /\ Start

InitEmpty == commands = <<>> /\ Start

IsAbbrev ==
    /\ pc = "ready"
    /\ \E x \in AbbrevTokens, y \in AbbrevNames :
        /\ call' = [op |-> "is_abbrev", x |-> x, y |-> y]
        /\ outcome' = is_abbrev(x, y)
    /\ pc' = "done"
    /\ UNCHANGED commands

GetCommand ==
    /\ pc = "ready"
    /\ \E cmd_name \in Tokens :
        /\ call' = [op |-> "get_command", cmd_name |-> cmd_name]
        /\ outcome' = get_command(commands, cmd_name)
    /\ pc' = "done"
    /\ UNCHANGED commands

ResolveCommand ==
    /\ pc = "ready"
    /\ \E cmd_name \in Tokens, rest \in RestArgs, resilient_parsing \in BOOLEAN :
        /\ call' = [op |-> "resolve_command", args |-> <<cmd_name>> \o rest,
                    resilient_parsing |-> resilient_parsing]
        /\ outcome' = resolve_command(commands, <<cmd_name>> \o rest,
                                      resilient_parsing)
    /\ pc' = "done"
    /\ UNCHANGED commands

GetWorkspaceAndTokenOrDie ==
    /\ pc = "ready"
    /\ \E workspace_url \in Urls \cup {NoneStr},
          auth_tokens \in [Urls -> AuthTokens \cup {NoneStr}] :
        /\ call' = [op |-> "get_workspace_and_token_or_die",
                    workspace_url |-> workspace_url,
                    auth_tokens |-> auth_tokens]
        /\ outcome' = get_workspace_and_token_or_die(workspace_url, auth_tokens)
    /\ pc' = "done"
    /\ UNCHANGED commands

Check ==
    /\ pc = "ready"
    /\ \E condition \in BOOLEAN, message \in Messages :
        /\ call' = [op |-> "check", condition |-> condition,
                    message |-> message]
        /\ outcome' = check(condition, message)
    /\ pc' = "done"
    /\ UNCHANGED commands

GuardApi ==
    /\ pc = "ready"
    /\ \E content_or_error \in Contents, detail \in BOOLEAN,
          msg \in Messages \cup {NoneStr, ""} :
        /\ call' = [op |-> "guard_api", content_or_error |-> content_or_error,
                    detail |-> detail, msg |-> msg]
        /\ outcome' = guard_api(content_or_error, detail, msg)
    /\ pc' = "done"
    /\ UNCHANGED commands

ExplainResponse ==
    /\ pc = "ready"
    /\ \E status_code \in StatusCodes, if_200 \in Messages, if_404 \in Messages,
          if_others \in Messages, exit_if_404 \in BOOLEAN :
        /\ call' = [op |-> "explain_response", status_code |-> status_code,
                    if_200 |-> if_200, if_404 |-> if_404,
                    if_others |-> if_others, exit_if_404 |-> exit_if_404]
        /\ outcome' = explain_response(status_code, if_200, if_404, if_others,
                                       exit_if_404)
    /\ pc' = "done"
    /\ UNCHANGED commands

\* the dispatcher's lookup, over every group of at most MaxCmds commands
Next == GetCommand

Spec == Init /\ [][Next]_vars

\* the resolution entry point
NextResolve == ResolveCommand

SpecResolve == InitResolve /\ [][NextResolve]_vars

\* the abbreviation test alone, on longer strings
NextAbbrev == IsAbbrev

SpecAbbrev == InitEmpty /\ [][NextAbbrev]_vars

\* the print-and-exit helpers
NextUtil ==
    \/ GetWorkspaceAndTokenOrDie
    \/ Check
    \/ GuardApi
    \/ ExplainResponse

SpecUtil == InitEmpty /\ [][NextUtil]_vars

====
